---------------------------- MODULE Spec2Model ----------------------------
(***************************************************************************)
(* Model of the two command-line tools of the repository:                  *)
(*   tools/audit_fill.py  (backup, load, dedupe, interactive fill, save)   *)
(*   tools/audit_qna.py   (load, print a transcript)                       *)
(* Text is modelled as a sequence of one-character strings, a JSON object  *)
(* (a Python dict) as a function whose DOMAIN is the set of keys present.  *)
(***************************************************************************)
EXTENDS Naturals, Sequences, FiniteSets, TLC

VARIABLES
    tool,     \* which script runs: "fill" (audit_fill.py) or "report" (audit_qna.py)
    args,     \* parsed command line flags
    DATA,     \* content of audit1_questions.json
    BACKUP,   \* content of audit1_questions.json.bak
    pre,      \* history: content of the data file when the run started
    pc,       \* position of the run
    exc,      \* uncaught exception that ended the run, "none" otherwise
    items,    \* value returned by load() / load_questions()
    idx,      \* number of elements the current for-loop has consumed
    seen,     \* dedupe: key -> position in out of the object kept for the key
    out,      \* dedupe: list of kept objects
    cleaned,  \* main: list returned by dedupe(), mutated in place by interactive_fill
    stdin,    \* history: what the operator's terminal delivered to input()
    stdout    \* what the run printed

vars == <<tool, args, DATA, BACKUP, pre, pc, exc, items, idx, seen, out, cleaned,
          stdin, stdout>>

-----------------------------------------------------------------------------
(* Bounds of the model *)

MaxLen == 3        \* longest input list given to dedupe on its own
MaxFileLen == 3    \* longest array stored in the data file of a modelled run

-----------------------------------------------------------------------------
(* Text: str.strip, str.lower, str.split, ' '.join *)

IsSpace(c) == c \in {" ", "\t"}

\* the letters of the modelled questions are a, b, A, B
LowerChar(c) == CASE c = "A" -> "a" [] c = "B" -> "b" [] OTHER -> c

lower(s) == [i \in 1..Len(s) |-> LowerChar(s[i])]

RECURSIVE lstrip(_)
lstrip(s) == IF s = <<>> THEN <<>>
             ELSE IF IsSpace(Head(s)) THEN lstrip(Tail(s)) ELSE s

RECURSIVE rstrip(_)
rstrip(s) == IF s = <<>> THEN <<>>
             ELSE IF IsSpace(s[Len(s)]) THEN rstrip(SubSeq(s, 1, Len(s) - 1)) ELSE s

strip(s) == rstrip(lstrip(s))

RECURSIVE split_from(_, _, _)
split_from(s, word, acc) ==
    IF s = <<>> THEN (IF word = <<>> THEN acc ELSE Append(acc, word))
    ELSE IF IsSpace(Head(s))
         THEN split_from(Tail(s), <<>>, IF word = <<>> THEN acc ELSE Append(acc, word))
         ELSE split_from(Tail(s), Append(word, Head(s)), acc)

split(s) == split_from(s, <<>>, <<>>)

RECURSIVE join(_)
join(words) == IF words = <<>> THEN <<>>
               ELSE IF Len(words) = 1 THEN words[1]
               ELSE words[1] \o <<" ">> \o join(Tail(words))

-----------------------------------------------------------------------------
(* dict.get and truthiness *)

get(it, k, default) == IF k \in DOMAIN it THEN it[k] ELSE default

\* truth value of it.get('answer'): None when absent, '' when empty
HasAnswer(it) == "answer" \in DOMAIN it /\ it["answer"] # <<>>

-----------------------------------------------------------------------------
(* dedupe: the body of the for-loop, on the locals (seen, out) *)

EmptyDict == [k \in {} |-> 0]

StripOneEach(s) ==
    LET l == IF s # <<>> /\ IsSpace(Head(s)) THEN Tail(s) ELSE s
    IN  IF l # <<>> /\ IsSpace(l[Len(l)]) THEN SubSeq(l, 1, Len(l) - 1) ELSE l

Question_stripOne(it) == StripOneEach(get(it, "question", <<>>))

\* q = it.get('question','').strip()
Question(it) == strip(get(it, "question", <<>>))

\* key = ' '.join(q.lower().split())
NormKey(q) == join(split(lower(q)))

KeySeen_never(s, key) == FALSE

KeySeen(s, key) == key \in DOMAIN s

MergeAnswer_last(prev, it) ==
    IF HasAnswer(it) THEN it["answer"] ELSE prev["answer"]

MergeAnswer(prev, it) ==
    IF ~HasAnswer(prev) /\ HasAnswer(it) THEN it["answer"] ELSE prev["answer"]

MergeOptional_overwrite(prev, it) == get(it, "optional", FALSE)

MergeOptional(prev, it) == get(prev, "optional", FALSE) \/ get(it, "optional", FALSE)

\* obj = {'question': q, 'answer': it.get('answer',''), 'optional': it.get('optional', False)}
NewObj(q, it) ==
    [question |-> q, answer |-> get(it, "answer", <<>>),
     optional |-> get(it, "optional", FALSE)]

SkipKey_never(key) == FALSE

SkipKey(key) == key = <<>>

KeepNew_front(st, key, obj) ==
    [seen |-> [k \in DOMAIN st.seen \cup {key} |->
                  IF k = key THEN 1 ELSE st.seen[k] + 1],
     out  |-> <<obj>> \o st.out]

\* seen[key] = obj; out.append(obj): seen refers to the object now last in out
KeepNew(st, key, obj) ==
    [seen |-> [k \in DOMAIN st.seen \cup {key} |->
                  IF k = key THEN Len(st.out) + 1 ELSE st.seen[k]],
     out  |-> Append(st.out, obj)]

dedupe_body(st, it) ==
    LET q   == Question(it)
        key == NormKey(q)
    IN  IF SkipKey(key) THEN st
        ELSE IF KeySeen(st.seen, key)
        THEN LET p    == st.seen[key]
                 prev == st.out[p]
                 a    == MergeAnswer(prev, it)
                 o    == MergeOptional([prev EXCEPT !["answer"] = a], it)
             IN  [seen |-> st.seen,
                  out  |-> [st.out EXCEPT ![p] =
                               [question |-> prev["question"], answer |-> a, optional |-> o]]]
        ELSE KeepNew(st, key, NewObj(q, it))

\* dedupe(items) as a function: the loop run to its end from empty locals
RECURSIVE dedupe_from(_, _)
dedupe_from(st, its) ==
    IF its = <<>> THEN st ELSE dedupe_from(dedupe_body(st, Head(its)), Tail(its))

dedupe(its) == dedupe_from([seen |-> EmptyDict, out |-> <<>>], its).out

-----------------------------------------------------------------------------
(* The values the model draws its inputs from *)

SeqsUpTo(S, n) == UNION {[1..k -> S] : k \in 0..n}

\* questions with a key: "  A  b" and "a<TAB>B " spell the key "a b", "B" the key "b"
Questions ==
    { <<" ", " ", "A", " ", " ", "b">>,
      <<"a", "\t", "B", " ">>,
      <<"B">> }

\* a question of whitespace only
Blank == <<" ", "\t">>

Answers == { <<>>, <<"X">>, <<"Y">> }

\* objects with all three fields, an object whose question is blank, and objects
\* with fields missing
Records ==
    [question : Questions, answer : Answers, optional : BOOLEAN]
    \cup { [question |-> Blank, answer |-> <<"X">>, optional |-> TRUE],
           [question |-> <<"a", "\t", "B", " ">>],
           [answer |-> <<"Y">>, optional |-> TRUE],
           [question |-> <<" ", " ", "A", " ", " ", "b">>, optional |-> TRUE] }

\* the objects of the data file in the runs of the whole tools
FileRecords ==
    { [question |-> <<" ", " ", "A", " ", " ", "b">>, answer |-> <<>>, optional |-> FALSE],
      [question |-> <<"a", "\t", "B", " ">>, answer |-> <<"X">>, optional |-> TRUE],
      [question |-> <<"B">>, answer |-> <<"Y">>, optional |-> FALSE],
      [question |-> <<"A">>, answer |-> <<>>, optional |-> FALSE],
      [question |-> Blank, answer |-> <<"X">>, optional |-> TRUE],
      [answer |-> <<"Y">>],
      [question |-> <<"a", "\t", "B", " ">>] }

\* what input() returns for a line the operator typed
OperatorLines == { <<>>, <<" ", "Z", " ">> }

\* what ends input() instead: end of input, an interrupt
EOF == <<"EOF">>
INTR == <<"INTR">>

-----------------------------------------------------------------------------
(* Files.  A file is missing or holds a text; the text is modelled by the   *)
(* JSON value it denotes, or by why it denotes none.                       *)

Missing == [t |-> "missing", v |-> <<>>]
Empty == [t |-> "empty", v |-> <<>>]              \* zero bytes
Invalid == [t |-> "invalid", v |-> <<>>]          \* some text that is not JSON
Array(rs) == [t |-> "array", v |-> rs]            \* [ {...}, ... ]
Partial(rs) == [t |-> "partial", v |-> rs]        \* "[ {...}, ..." cut short
Object(ks) == [t |-> "object", v |-> ks]          \* { "k": ..., ... }, its keys
String(cs) == [t |-> "string", v |-> cs]          \* "..."
Number == [t |-> "number", v |-> <<>>]
Null == [t |-> "null", v |-> <<>>]

NonArrayJson == { Object(<<>>), Object(<<"question">>), String(<<>>), String(<<"a">>),
                  Number, Null }

FileContents ==
    {Missing, Empty, Invalid} \cup NonArrayJson
    \cup {Array(rs) : rs \in SeqsUpTo(FileRecords, MaxFileLen)}

OldBackup == Array(<<[question |-> <<"B">>, answer |-> <<>>, optional |-> FALSE]>>)

NotLoaded == [t |-> "unset", v |-> <<>>]

IsJson(c) == c.t \in {"array", "object", "string", "number", "null"}

\* for x in value: lists, dicts (their keys) and strings (their characters)
Iterable(val) == val.t \in {"array", "object", "string"}

-----------------------------------------------------------------------------
(* audit_fill.py: main *)

\* if not DATA.exists(): print(...); return
FillMissing ==
    /\ pc = "start" /\ tool = "fill" /\ DATA = Missing
    /\ stdout' = Append(stdout, [k |-> "notfound"])
    /\ pc' = "done"
    /\ UNCHANGED <<tool, args, DATA, BACKUP, pre, exc, items, idx, seen, out, cleaned, stdin>>

FillExists ==
    /\ pc = "start" /\ tool = "fill" /\ DATA # Missing
    /\ pc' = "backup"
    /\ UNCHANGED <<tool, args, DATA, BACKUP, pre, exc, items, idx, seen, out, cleaned,
                   stdin, stdout>>

Backup_skipped ==
    /\ pc = "backup"
    /\ pc' = "load"
    /\ UNCHANGED <<tool, args, DATA, BACKUP, pre, exc, items, idx, seen, out, cleaned,
                   stdin, stdout>>

\* shutil.copy2(DATA, BACKUP)
Backup ==
    /\ pc = "backup"
    /\ BACKUP' = DATA
    /\ pc' = "load"
    /\ UNCHANGED <<tool, args, DATA, pre, exc, items, idx, seen, out, cleaned,
                   stdin, stdout>>

\* shutil.copy2 raises: the destination cannot be opened, or the copy stops short
BackupFail ==
    /\ pc = "backup"
    /\ BACKUP' \in {BACKUP, Empty}
    /\ exc' = "PermissionError"
    /\ pc' = "raised"
    /\ UNCHANGED <<tool, args, DATA, pre, items, idx, seen, out, cleaned, stdin, stdout>>

\* items = load(); cleaned = dedupe(items) starts with seen = {}, out = []
load ==
    /\ pc = "load" /\ tool = "fill" /\ IsJson(DATA)
    /\ items' = DATA
    /\ seen' = EmptyDict /\ out' = <<>> /\ idx' = 0
    /\ pc' = "dedupe"
    /\ UNCHANGED <<tool, args, DATA, BACKUP, pre, exc, cleaned, stdin, stdout>>

\* json.load raises on a text that is not JSON
load_fail ==
    /\ pc = "load" /\ tool = "fill" /\ ~IsJson(DATA)
    /\ exc' = "JSONDecodeError"
    /\ pc' = "raised"
    /\ UNCHANGED <<tool, args, DATA, BACKUP, pre, items, idx, seen, out, cleaned,
                   stdin, stdout>>

-----------------------------------------------------------------------------
(* audit_fill.py: dedupe, one iteration of "for it in items" per step *)

dedupe_iter ==
    /\ pc = "dedupe" /\ items.t = "array" /\ idx < Len(items.v)
    /\ LET st == dedupe_body([seen |-> seen, out |-> out], items.v[idx + 1])
       IN  seen' = st.seen /\ out' = st.out
    /\ idx' = idx + 1
    /\ UNCHANGED <<tool, args, DATA, BACKUP, pre, pc, exc, items, cleaned, stdin, stdout>>

\* the elements of a dict or of a str are strings: it.get raises
dedupe_iter_str ==
    /\ pc = "dedupe" /\ items.t \in {"object", "string"} /\ idx < Len(items.v)
    /\ exc' = "AttributeError"
    /\ pc' = "raised"
    /\ UNCHANGED <<tool, args, DATA, BACKUP, pre, items, idx, seen, out, cleaned,
                   stdin, stdout>>

\* "for it in items" raises on a number or on None
dedupe_not_iterable ==
    /\ pc = "dedupe" /\ ~Iterable(items)
    /\ exc' = "TypeError"
    /\ pc' = "raised"
    /\ UNCHANGED <<tool, args, DATA, BACKUP, pre, items, idx, seen, out, cleaned,
                   stdin, stdout>>

\* return out; if args.interactive: ... else save(cleaned)
dedupe_return ==
    /\ pc = "dedupe" /\ Iterable(items) /\ idx = Len(items.v)
    /\ cleaned' = out
    /\ idx' = 0
    /\ pc' = IF args.interactive THEN "fill" ELSE "save"
    /\ UNCHANGED <<tool, args, DATA, BACKUP, pre, exc, items, seen, out, stdin, stdout>>

-----------------------------------------------------------------------------
(* audit_fill.py: interactive_fill, one prompt per step *)

Vide == <<"<", "v", "i", "d", "e", ">">>

PromptText(it) ==
    [k |-> "prompt", q |-> it["question"],
     a |-> IF it["answer"] # <<>> THEN it["answer"] ELSE Vide]

\* ans = input(...).strip(); if ans: it['answer'] = ans
interactive_fill_iter ==
    /\ pc = "fill" /\ idx < Len(cleaned)
    /\ \E line \in OperatorLines :
         LET ans == strip(line)
         IN  /\ stdin' = Append(stdin, line)
             /\ cleaned' = IF ans # <<>>
                           THEN [cleaned EXCEPT ![idx + 1]["answer"] = ans]
                           ELSE cleaned
    /\ stdout' = Append(stdout, PromptText(cleaned[idx + 1]))
    /\ idx' = idx + 1
    /\ UNCHANGED <<tool, args, DATA, BACKUP, pre, pc, exc, items, seen, out>>

interactive_fill_cancelled_caught ==
    /\ pc = "fill" /\ idx < Len(cleaned)
    /\ \E e \in {EOF, INTR} : stdin' = Append(stdin, e)
    /\ stdout' = Append(stdout, PromptText(cleaned[idx + 1]))
    /\ pc' = "save"
    /\ UNCHANGED <<tool, args, DATA, BACKUP, pre, exc, items, idx, seen, out, cleaned>>

\* input() raises EOFError or KeyboardInterrupt; nothing catches it
interactive_fill_cancelled ==
    /\ pc = "fill" /\ idx < Len(cleaned)
    /\ \E e \in {EOF, INTR} :
         /\ stdin' = Append(stdin, e)
         /\ exc' = IF e = EOF THEN "EOFError" ELSE "KeyboardInterrupt"
    /\ stdout' = Append(stdout, PromptText(cleaned[idx + 1]))
    /\ pc' = "raised"
    /\ UNCHANGED <<tool, args, DATA, BACKUP, pre, items, idx, seen, out, cleaned>>

\* return items
interactive_fill_return ==
    /\ pc = "fill" /\ idx = Len(cleaned)
    /\ pc' = "save"
    /\ UNCHANGED <<tool, args, DATA, BACKUP, pre, exc, items, idx, seen, out, cleaned,
                   stdin, stdout>>

-----------------------------------------------------------------------------
(* audit_fill.py: save *)

\* DATA.open('w') truncates the file
save_open ==
    /\ pc = "save"
    /\ DATA' = Empty
    /\ idx' = 0
    /\ pc' = "dump"
    /\ UNCHANGED <<tool, args, BACKUP, pre, exc, items, seen, out, cleaned, stdin, stdout>>

\* json.dump writes the text chunk by chunk: the first idx objects are in the file
save_write ==
    /\ pc = "dump" /\ idx < Len(cleaned)
    /\ DATA' = Partial(SubSeq(cleaned, 1, idx + 1))
    /\ idx' = idx + 1
    /\ UNCHANGED <<tool, args, BACKUP, pre, pc, exc, items, seen, out, cleaned, stdin, stdout>>

\* a write raises (the disk is full, the run is interrupted); the with-block closes
save_fail ==
    /\ pc = "dump"
    /\ exc' = "OSError"
    /\ pc' = "raised"
    /\ UNCHANGED <<tool, args, DATA, BACKUP, pre, items, idx, seen, out, cleaned,
                   stdin, stdout>>

\* the last chunk is written and the with-block closes the file
save_close ==
    /\ pc = "dump" /\ idx = Len(cleaned)
    /\ DATA' = Array(cleaned)
    /\ pc' = "saved"
    /\ UNCHANGED <<tool, args, BACKUP, pre, exc, items, idx, seen, out, cleaned, stdin, stdout>>

\* print(f'Nettoye et enregistre {len(cleaned)} questions ...')
PrintSaved ==
    /\ pc = "saved"
    /\ stdout' = Append(stdout, [k |-> "saved", n |-> Len(cleaned)])
    /\ pc' = "done"
    /\ UNCHANGED <<tool, args, DATA, BACKUP, pre, exc, items, idx, seen, out, cleaned, stdin>>

-----------------------------------------------------------------------------
(* audit_qna.py *)

\* if not DATA_FILE.exists(): print(...); sys.exit(2)
ReportMissing ==
    /\ pc = "start" /\ tool = "report" /\ DATA = Missing
    /\ stdout' = Append(stdout, [k |-> "notfound"])
    /\ pc' = "exit2"
    /\ UNCHANGED <<tool, args, DATA, BACKUP, pre, exc, items, idx, seen, out, cleaned, stdin>>

ReportExists ==
    /\ pc = "start" /\ tool = "report" /\ DATA # Missing
    /\ pc' = "load"
    /\ UNCHANGED <<tool, args, DATA, BACKUP, pre, exc, items, idx, seen, out, cleaned,
                   stdin, stdout>>

\* questions = load_questions(DATA_FILE)
load_questions ==
    /\ pc = "load" /\ tool = "report" /\ IsJson(DATA)
    /\ items' = DATA
    /\ idx' = 0
    /\ pc' = IF args.json THEN "print_json" ELSE "print_qna"
    /\ UNCHANGED <<tool, args, DATA, BACKUP, pre, exc, seen, out, cleaned, stdin, stdout>>

load_questions_fail ==
    /\ pc = "load" /\ tool = "report" /\ ~IsJson(DATA)
    /\ exc' = "JSONDecodeError"
    /\ pc' = "raised"
    /\ UNCHANGED <<tool, args, DATA, BACKUP, pre, items, idx, seen, out, cleaned,
                   stdin, stdout>>

\* print(json.dumps(questions, ensure_ascii=False, indent=2))
PrintJson ==
    /\ pc = "print_json"
    /\ stdout' = Append(stdout, [k |-> "json", val |-> items])
    /\ pc' = "done"
    /\ UNCHANGED <<tool, args, DATA, BACKUP, pre, exc, items, idx, seen, out, cleaned, stdin>>

\* str(None), what the f-string prints for a missing field
NoneText == <<"N", "o", "n", "e">>

\* print_qna: print(f"{i}. Question: {q}\n   Reponse: {a}\n")
print_qna_iter ==
    /\ pc = "print_qna" /\ items.t = "array" /\ idx < Len(items.v)
    /\ LET item == items.v[idx + 1]
       IN  stdout' = Append(stdout, [k |-> "qna", n |-> idx + 1,
                                     q |-> get(item, "question", NoneText),
                                     a |-> get(item, "answer", NoneText)])
    /\ idx' = idx + 1
    /\ UNCHANGED <<tool, args, DATA, BACKUP, pre, pc, exc, items, seen, out, cleaned, stdin>>

print_qna_iter_str ==
    /\ pc = "print_qna" /\ items.t \in {"object", "string"} /\ idx < Len(items.v)
    /\ exc' = "AttributeError"
    /\ pc' = "raised"
    /\ UNCHANGED <<tool, args, DATA, BACKUP, pre, items, idx, seen, out, cleaned,
                   stdin, stdout>>

print_qna_not_iterable ==
    /\ pc = "print_qna" /\ ~Iterable(items)
    /\ exc' = "TypeError"
    /\ pc' = "raised"
    /\ UNCHANGED <<tool, args, DATA, BACKUP, pre, items, idx, seen, out, cleaned,
                   stdin, stdout>>

print_qna_return ==
    /\ pc = "print_qna" /\ Iterable(items) /\ idx = Len(items.v)
    /\ pc' = "done"
    /\ UNCHANGED <<tool, args, DATA, BACKUP, pre, exc, items, idx, seen, out, cleaned,
                   stdin, stdout>>

-----------------------------------------------------------------------------
(* Specifications *)

FillArgs == [interactive : BOOLEAN, dedupe_only : BOOLEAN, json : {FALSE}]
ReportArgs == [interactive : {FALSE}, dedupe_only : {FALSE}, json : BOOLEAN]

\* one run of one of the two tools, on any data file and any earlier backup
Init ==
    /\ tool \in {"fill", "report"}
    /\ args \in (IF tool = "fill" THEN FillArgs ELSE ReportArgs)
    /\ DATA \in FileContents
    /\ BACKUP \in {Missing, OldBackup}
    /\ pre = DATA
    /\ pc = "start"
    /\ exc = "none"
    /\ items = NotLoaded
    /\ idx = 0
    /\ seen = EmptyDict
    /\ out = <<>>
    /\ cleaned = <<>>
    /\ stdin = <<>>
    /\ stdout = <<>>

Next ==
    \/ FillMissing \/ FillExists \/ Backup \/ BackupFail \/ load \/ load_fail
    \/ dedupe_iter \/ dedupe_iter_str \/ dedupe_not_iterable \/ dedupe_return
    \/ interactive_fill_iter \/ interactive_fill_cancelled \/ interactive_fill_return
    \/ save_open \/ save_write \/ save_fail \/ save_close \/ PrintSaved
    \/ ReportMissing \/ ReportExists \/ load_questions \/ load_questions_fail
    \/ PrintJson \/ print_qna_iter \/ print_qna_iter_str \/ print_qna_not_iterable
    \/ print_qna_return

Spec == Init /\ [][Next]_vars

\* dedupe on its own: the fill tool has loaded a list of up to MaxLen objects
DedupeInit ==
    /\ tool = "fill"
    /\ args = [interactive |-> FALSE, dedupe_only |-> TRUE, json |-> FALSE]
    /\ items \in {Array(rs) : rs \in SeqsUpTo(Records, MaxLen)}
    /\ DATA = items
    /\ BACKUP = items
    /\ pre = items
    /\ pc = "dedupe"
    /\ exc = "none"
    /\ idx = 0
    /\ seen = EmptyDict
    /\ out = <<>>
    /\ cleaned = <<>>
    /\ stdin = <<>>
    /\ stdout = <<>>

DedupeNext == dedupe_iter \/ dedupe_return

DedupeSpec == DedupeInit /\ [][DedupeNext]_vars

-----------------------------------------------------------------------------
(* The normalization key as the data model defines it: the question        *)
(* lowercased, every run of whitespace collapsed to one space, trimmed.    *)

RECURSIVE CollapseRuns(_)
CollapseRuns(s) ==
    IF s = <<>> THEN <<>>
    ELSE IF IsSpace(Head(s))
         THEN IF Len(s) > 1 /\ IsSpace(s[2])
              THEN CollapseRuns(Tail(s))
              ELSE <<" ">> \o CollapseRuns(Tail(s))
         ELSE <<Head(s)>> \o CollapseRuns(Tail(s))

\* the text between its first and its last character that is not whitespace
Trimmed(s) ==
    LET I == {i \in 1..Len(s) : ~IsSpace(s[i])}
    IN  IF I = {} THEN <<>>
        ELSE SubSeq(s, CHOOSE i \in I : \A j \in I : i <= j,
                       CHOOSE i \in I : \A j \in I : i >= j)

KeyOfText(q) == Trimmed(CollapseRuns([i \in 1..Len(q) |-> LowerChar(q[i])]))

\* KeyOfText tabulated on the question texts of the model's inputs
KnownTexts ==
    LET Qs == Questions \cup {get(r, "question", <<>>) : r \in FileRecords}
    IN  Qs \cup {Trimmed(q) : q \in Qs}

KeyTable == [q \in KnownTexts |-> KeyOfText(q)]

KeyOf(r) ==
    LET q == get(r, "question", <<>>)
    IN  IF q \in KnownTexts THEN KeyTable[q] ELSE KeyOfText(q)

\* the elements of the loaded list that dedupe has consumed
Consumed == 1..idx

\* the consumed elements that have the key k
Group(k) == {i \in Consumed : KeyOf(items.v[i]) = k}

MinOf(I) == CHOOSE i \in I : \A j \in I : i <= j

InDedupe == pc = "dedupe" /\ items.t = "array"

-----------------------------------------------------------------------------
(* Claims on dedupe, under DedupeSpec *)

\* C5: after every step of a dedupe pass, and so in its output, no two kept
\* records have the same normalization key.
C5_UniqueKeys ==
    /\ \A p, r \in 1..Len(out) : p < r => KeyOf(out[p]) # KeyOf(out[r])
    /\ \A p, r \in 1..Len(cleaned) : p < r => KeyOf(cleaned[p]) # KeyOf(cleaned[r])

\* C5 witness: the pass has consumed two records that spell one key differently.
C5_Witness ==
    /\ InDedupe
    /\ \E i, j \in Consumed :
          /\ i < j
          /\ KeyOf(items.v[i]) = KeyOf(items.v[j])
          /\ KeyOf(items.v[i]) # <<>>
          /\ get(items.v[i], "question", <<>>) # get(items.v[j], "question", <<>>)

\* C6: dedupe is idempotent: dedupe of the list dedupe returned is that list,
\* record for record.
C6_Idempotent == (pc # "dedupe") => dedupe(cleaned) = cleaned

\* C6 witness: dedupe returned a list shorter than its input, with a merged record.
C6_Witness ==
    /\ pc # "dedupe"
    /\ Len(cleaned) >= 2
    /\ Len(cleaned) < Len(items.v)
    /\ \E i, j \in 1..Len(items.v) :
          i < j /\ KeyOf(items.v[i]) = KeyOf(items.v[j]) /\ KeyOf(items.v[i]) # <<>>

\* C7: after every step of a pass, a kept record's answer is the first non-empty
\* answer, in input order, of the consumed records with its key, and it is empty
\* only when none of them has a non-empty answer.
C7_FirstNonEmptyAnswer ==
    InDedupe =>
        \A p \in 1..Len(out) :
            LET I == {i \in Group(KeyOf(out[p])) : HasAnswer(items.v[i])}
            IN  IF I = {} THEN out[p]["answer"] = <<>>
                ELSE out[p]["answer"] = items.v[MinOf(I)]["answer"]

\* C7 witness: of two consumed duplicates the first has no answer, the second has.
C7_Witness ==
    /\ InDedupe
    /\ \E i, j \in Consumed :
          /\ i < j
          /\ KeyOf(items.v[i]) = KeyOf(items.v[j])
          /\ KeyOf(items.v[i]) # <<>>
          /\ ~HasAnswer(items.v[i])
          /\ HasAnswer(items.v[j])
    /\ \E i, j \in Consumed :
          /\ i < j
          /\ KeyOf(items.v[i]) = KeyOf(items.v[j])
          /\ KeyOf(items.v[i]) # <<>>
          /\ HasAnswer(items.v[i])
          /\ HasAnswer(items.v[j])
          /\ items.v[i]["answer"] # items.v[j]["answer"]

\* C8: after every step of a pass, a kept record's optional flag is the logical
\* OR of the optional flags (absent counts as false) of the consumed records with
\* its key; so it never goes from true back to false.
C8_OptionalIsOr ==
    InDedupe =>
        \A p \in 1..Len(out) :
            out[p]["optional"] =
                (\E i \in Group(KeyOf(out[p])) : get(items.v[i], "optional", FALSE))

\* C8 witness: a consumed duplicate that is not optional follows one that is.
C8_Witness ==
    /\ InDedupe
    /\ \E i, j \in Consumed :
          /\ i < j
          /\ KeyOf(items.v[i]) = KeyOf(items.v[j])
          /\ KeyOf(items.v[i]) # <<>>
          /\ get(items.v[i], "optional", FALSE)
          /\ ~get(items.v[j], "optional", FALSE)

\* C9: after every step of a pass, for two distinct non-empty keys of the consumed
\* records the kept record of one comes before the kept record of the other
\* exactly when its first occurrence does, and a kept record's question is the
\* trimmed question of the first occurrence of its key.
C9_FirstSeenOrder ==
    InDedupe =>
        LET Ks == {KeyOf(items.v[i]) : i \in Consumed} \ {<<>>}
            Pos(k) == {p \in 1..Len(out) : KeyOf(out[p]) = k}
        IN  /\ \A k \in Ks :
                 /\ Pos(k) # {}
                 /\ \A p \in Pos(k) :
                       out[p]["question"] =
                           Trimmed(get(items.v[MinOf(Group(k))], "question", <<>>))
            /\ \A k1, k2 \in Ks : \A p \in Pos(k1) : \A r \in Pos(k2) :
                 (k1 # k2) => ((p < r) <=> (MinOf(Group(k1)) < MinOf(Group(k2))))

\* C9 witness: the pass has consumed a key, then another key, then a duplicate
\* of the first whose question is spelled differently.
C9_Witness ==
    /\ InDedupe
    /\ idx >= 3
    /\ KeyOf(items.v[1]) # <<>>
    /\ KeyOf(items.v[2]) # <<>>
    /\ KeyOf(items.v[2]) # KeyOf(items.v[1])
    /\ KeyOf(items.v[3]) = KeyOf(items.v[1])
    /\ get(items.v[3], "question", <<>>) # get(items.v[1], "question", <<>>)
    /\ Len(out) = 2

-----------------------------------------------------------------------------
(* Claims on the runs of the tools, under Spec *)

\* the fill tool is past shutil.copy2
BackupDone ==
    \/ pc \in {"load", "dedupe", "fill", "save", "dump", "saved"}
    \/ pc = "done" /\ pre # Missing
    \/ pc = "raised" /\ exc # "PermissionError"

\* C1: in a run of the fill tool on an existing data file, nothing is loaded or
\* saved before the copy to the .bak path, and from the copy on, to the end of the
\* run by a save or by a failure, the .bak file holds the content the data file
\* had before the run.
C1_BackupHoldsPreRun ==
    (tool = "fill" /\ pre # Missing) =>
        /\ (pc \in {"start", "backup"}) => (items = NotLoaded /\ DATA = pre)
        /\ BackupDone => BACKUP = pre

\* C1 witness: a run over an older, different backup has saved a changed data file.
C1_Witness ==
    /\ tool = "fill"
    /\ pc = "done"
    /\ pre.t = "array"
    /\ pre # OldBackup
    /\ DATA # pre
    /\ BACKUP = pre

\* C2: when input() ends or is interrupted at a prompt, the run is over without a
\* save: the data file keeps its pre-run content, whatever was typed before.
C2_CancelNeverSaves ==
    (stdin # <<>> /\ stdin[Len(stdin)] \in {EOF, INTR}) =>
        /\ pc = "raised"
        /\ exc \in {"EOFError", "KeyboardInterrupt"}
        /\ DATA = pre

\* C2 witness: the input ended at the second of three prompts, after an answer
\* was typed at the first.
C2_Witness ==
    /\ Len(cleaned) = 3
    /\ Len(stdin) = 2
    /\ stdin[2] = EOF
    /\ strip(stdin[1]) # <<>>
    /\ cleaned[1]["answer"] = strip(stdin[1])
    /\ pc = "raised"

\* C3 (fails): at every point of a run of the fill tool the data file holds its
\* complete previous content or the complete serialization of the new list.
C3_SaveAllOrNothing ==
    (tool = "fill") => (DATA = pre \/ DATA = Array(cleaned))

\* C4 (fails): on a data file that is not valid JSON or not a JSON array, load
\* returns nothing and the run goes no further: nothing is deduped, saved or
\* printed.
C4_NonArrayStopsAtLoad ==
    (pre # Missing /\ pre.t # "array") =>
        /\ items = NotLoaded
        /\ pc \in {"start", "backup", "load", "raised"}
        /\ DATA = pre
        /\ stdout = <<>>

\* the elements of the loaded list that have a key
WithKey(rs) == SelectSeq(rs, LAMBDA r : KeyOf(r) # <<>>)

\* C10: a record whose key is empty is in no list dedupe builds, changes nothing
\* of what dedupe builds from the other records, and is not in the count the fill
\* tool prints; each consumed record with a key has exactly one kept record.
C10_EmptyKeyDropped ==
    (tool = "fill" /\ items.t = "array") =>
        /\ (pc = "dedupe") =>
              LET prefix == SubSeq(items.v, 1, idx)
              IN  /\ \A p \in 1..Len(out) : KeyOf(out[p]) # <<>>
                  /\ out = dedupe(WithKey(prefix))
                  /\ \A i \in Consumed :
                        (KeyOf(items.v[i]) # <<>>) =>
                            Cardinality({p \in 1..Len(out) :
                                            KeyOf(out[p]) = KeyOf(items.v[i])}) = 1
        /\ (pc # "dedupe") =>
              /\ \A p \in 1..Len(cleaned) : KeyOf(cleaned[p]) # <<>>
              /\ Len(cleaned) =
                    Cardinality({KeyOf(items.v[i]) : i \in 1..Len(items.v)} \ {<<>>})
        /\ (pc = "done") =>
              stdout[Len(stdout)] =
                  [k |-> "saved",
                   n |-> Cardinality({KeyOf(items.v[i]) : i \in 1..Len(items.v)} \ {<<>>})]

\* C10 witness: a run on a file with a blank question, a record without question
\* and a record with a key has printed a count of one.
C10_Witness ==
    /\ tool = "fill"
    /\ pc = "done"
    /\ items.t = "array"
    /\ Len(items.v) = 3
    /\ \E i \in 1..3 : "question" \in DOMAIN items.v[i] /\ items.v[i]["question"] = Blank
    /\ \E i \in 1..3 : "question" \notin DOMAIN items.v[i]
    /\ stdout[Len(stdout)] = [k |-> "saved", n |-> 1]

=============================================================================
